---- MODULE Spec2Model ----
(***************************************************************************)
(* The workflow execution engine of AgentForge                             *)
(* (backend/src/services/agentExecutor.ts): executeAgentWorkflow, the      *)
(* AgentExecutor graph walker, the node handlers it dispatches to, and the *)
(* Execution record held in memory (the mongoose document) and in the      *)
(* store (the collection that findByIdAndUpdate and save write to).        *)
(***************************************************************************)
EXTENDS Integers, Sequences, FiniteSets, TLC

VARIABLES
    graph,      \* the nodes and edges handed to executeAgentWorkflow
    faults,     \* what fails in the environment: "append" and "save" (the store
                \* may reject them), "nokey" and "ai" (no generation capability,
                \* a failing generation call), "stall" (HTTP requests never
                \* receive a response)
    active,     \* the calls of executeAgentWorkflow that are made
    store,      \* the Execution collection: execution id -> stored record
    nextId,     \* the next fresh _id
    clock,      \* the wall clock read by new Date()
    pc,         \* per call: the position in executeAgentWorkflow / execute
    execId,     \* per call: execution._id
    doc,        \* per call: the in-memory document `execution`
    stack,      \* per call: the active executeNode calls, outermost first
    err,        \* per call: the message of the error being propagated
    outcome,    \* per call: "pending", "returned" or "thrown"
    thrown,     \* per call: the message of the error the caller receives
    visits      \* per call: number of handler dispatches performed (bookkeeping)

vars == <<graph, faults, active, store, nextId, clock, pc, execId, doc, stack,
          err, outcome, thrown, visits>>

-----------------------------------------------------------------------------
(* Bounds of the model                                                     *)

\* Deepest executeNode recursion explored; a graph without a cycle over
\* MaxNodes nodes never needs more than MaxNodes + 1 nested calls.
MaxDepth == 6

\* Concurrent calls of executeAgentWorkflow.
MaxRuns == 2

Runs == 1..MaxRuns

Unset == -1

-----------------------------------------------------------------------------
(* Nodes, edges, graphs                                                    *)

TriggerTypes == {"trigger", "scheduleTrigger", "webhookTrigger"}
ApiTypes == {"apiCall", "action"}
ConditionTypes == {"condition", "ifElse"}
AiTypes == {"aiProcess", "aiAction"}

\* The case labels of the switch in executeNode.
KindOf(type) ==
    IF type \in TriggerTypes THEN "trigger"
    ELSE IF type \in ApiTypes THEN "api"
    ELSE IF type \in ConditionTypes THEN "condition"
    ELSE IF type \in AiTypes THEN "ai"
    ELSE "unknown"

Edge(s, t) == [source |-> s, target |-> t]

\* Edge lists over node ids 1..n; an id above n names no node.
Shapes ==
    { [n |-> 1, edges |-> << >>],
      [n |-> 3, edges |-> <<Edge(1, 2), Edge(2, 3)>>],
      [n |-> 3, edges |-> <<Edge(1, 2), Edge(1, 3)>>],
      [n |-> 3, edges |-> <<Edge(1, 2), Edge(1, 3), Edge(2, 3)>>],
      [n |-> 4, edges |-> <<Edge(1, 2), Edge(2, 3), Edge(2, 4)>>],
      [n |-> 4, edges |-> <<Edge(1, 2), Edge(2, 3), Edge(2, 4), Edge(3, 4)>>],
      [n |-> 2, edges |-> <<Edge(1, 2), Edge(1, 2)>>],
      [n |-> 2, edges |-> <<Edge(1, 2), Edge(2, 3)>>],
      [n |-> 3, edges |-> <<Edge(1, 2), Edge(2, 9), Edge(2, 3)>>],
      [n |-> 2, edges |-> <<Edge(1, 2), Edge(2, 1)>>],
      [n |-> 3, edges |-> <<Edge(1, 2), Edge(2, 3), Edge(3, 2)>>],
      [n |-> 3, edges |-> <<Edge(3, 1), Edge(1, 2)>>] }

TypeChoices(i) ==
    CASE i = 1 -> {"trigger", "webhookTrigger", "email"}
      [] i = 2 -> {"apiCall", "condition", "ifElse", "email"}
      [] i = 3 -> {"action", "aiAction", "condition", "scheduleTrigger"}
      [] OTHER -> {"aiProcess", "apiCall"}


-----------------------------------------------------------------------------
(* Strings and JavaScript values of the condition evaluator                *)

\* A string is a sequence of one-character strings. Alphabet lists the
\* characters used, in increasing UTF-16 code unit order.
Alphabet ==
    <<" ", "!", "\"", "'", ".", "0", "1", "2", "3", "4", "5", "6", "7", "8", "9",
      "<", "=", ">", "R", "T", "a", "c", "d", "e", "f", "g", "h", "i", "l", "m", "n",
      "o", "p", "r", "s", "t", "u", "y">>

CharCode(c) == CHOOSE i \in 1..Len(Alphabet) : Alphabet[i] = c

Digits == {"0", "1", "2", "3", "4", "5", "6", "7", "8", "9"}

DigitValue(c) == CharCode(c) - CharCode("0")

\* JavaScript values: undefined, number, NaN-free numbers only, string, boolean, object.
Undefined == [t |-> "undefined", n |-> 0, s |-> << >>]
Num(n) == [t |-> "number", n |-> n, s |-> << >>]
Str(s) == [t |-> "string", n |-> 0, s |-> s]
Bool(b) == [t |-> "boolean", n |-> IF b THEN 1 ELSE 0, s |-> << >>]
Obj == [t |-> "object", n |-> 0, s |-> << >>]

\* String.prototype.includes
Includes(s, op) ==
    \E i \in 1..Len(s) : i + Len(op) - 1 <= Len(s) /\ SubSeq(s, i, i + Len(op) - 1) = op

\* Index of the first occurrence of op in s at or after position from; 0 if none.
IndexOf(s, op, from) ==
    LET hits == { i \in from..Len(s) :
                    i + Len(op) - 1 <= Len(s) /\ SubSeq(s, i, i + Len(op) - 1) = op }
    IN IF hits = {} THEN 0 ELSE CHOOSE i \in hits : \A j \in hits : i <= j

\* The first two elements of s.split(op); the second is "absent" when the
\* separator does not occur (the destructured variable is then undefined).
SplitFirst(s, op) ==
    LET i == IndexOf(s, op, 1)
    IN IF i = 0 THEN s ELSE SubSeq(s, 1, i - 1)

SplitSecond(s, op) ==
    LET i == IndexOf(s, op, 1)
        j == IF i = 0 THEN 0 ELSE IndexOf(s, op, i + Len(op))
    IN IF i = 0 THEN << >>
       ELSE IF j = 0 THEN SubSeq(s, i + Len(op), Len(s))
       ELSE SubSeq(s, i + Len(op), j - 1)

\* String.prototype.trim
Trim(s) ==
    LET inked == { i \in 1..Len(s) : s[i] # " " }
    IN IF inked = {} THEN << >>
       ELSE SubSeq(s, CHOOSE i \in inked : \A j \in inked : i <= j,
                      CHOOSE i \in inked : \A j \in inked : i >= j)

\* value.replace(/['"]/g, '')
StripQuotes(s) == SelectSeq(s, LAMBDA c : c \notin {"'", "\""})

IsNumeric(s) == \A i \in 1..Len(s) : s[i] \in Digits

\* The number written by the first k digits of s.
RECURSIVE DigitsValue(_, _)
DigitsValue(s, k) ==
    IF k = 0 THEN 0 ELSE 10 * DigitsValue(s, k - 1) + DigitValue(s[k])

\* Number(s) for the strings of the model: digits after trimming, the empty
\* string being 0; anything else is NaN.
StringIsNumber(s) == IsNumeric(Trim(s))
StringToNumber(s) == DigitsValue(Trim(s), Len(Trim(s)))

CharsTrue == <<"t", "r", "u", "e">>
CharsFalse == <<"f", "a", "l", "s", "e">>

\* parseValue once the quotes are removed.
ParseStripped(v) ==
    IF StringIsNumber(v) THEN Num(StringToNumber(v))
    ELSE IF v = CharsTrue THEN Bool(TRUE)
    ELSE IF v = CharsFalse THEN Bool(FALSE)
    ELSE Str(v)

\* (The stripped string is bound once, as a value.)
parseValue(value) ==
    CHOOSE parsed \in { ParseStripped(v) : v \in {StripQuotes(value)} } : TRUE

\* ToNumber: whether the value converts to a number (not NaN), and to which.
HasNumber(v) ==
    CASE v.t = "number" -> TRUE
      [] v.t = "boolean" -> TRUE
      [] v.t = "string" -> StringIsNumber(v.s)
      [] OTHER -> FALSE

ToNumber(v) == IF v.t = "string" THEN StringToNumber(v.s) ELSE v.n

\* Lexicographic order of two strings by code units.
StrLess(a, b) ==
    LET differ == { i \in 1..Len(a) : i <= Len(b) /\ a[i] # b[i] }
    IN IF differ = {} THEN Len(a) < Len(b)
       ELSE LET i == CHOOSE k \in differ : \A j \in differ : k <= j
            IN CharCode(a[i]) < CharCode(b[i])

\* The abstract relational comparison a < b of JavaScript.
JsLess(a, b) ==
    IF a.t = "string" /\ b.t = "string" THEN StrLess(a.s, b.s)
    ELSE HasNumber(a) /\ HasNumber(b) /\ ToNumber(a) < ToNumber(b)

\* a <= b is !(b < a) unless either side is NaN or the comparison is undefined.
JsLessEq(a, b) ==
    IF a.t = "string" /\ b.t = "string" THEN ~StrLess(b.s, a.s)
    ELSE HasNumber(a) /\ HasNumber(b) /\ ToNumber(a) <= ToNumber(b)

\* The loose equality a == b of JavaScript.
JsLooseEq(a, b) ==
    IF a.t = b.t THEN (IF a.t = "object" THEN FALSE ELSE a = b)
    ELSE IF a.t = "undefined" \/ b.t = "undefined" THEN FALSE
    ELSE IF a.t = "object" \/ b.t = "object" THEN FALSE
    ELSE HasNumber(a) /\ HasNumber(b) /\ ToNumber(a) = ToNumber(b)

OpEq == <<"=", "=">>
OpNe == <<"!", "=">>
OpGt == <<">">>
OpLt == <<"<">>
OpGe == <<">", "=">>
OpLe == <<"<", "=">>

compareValues(left, right, operator) ==
    CASE operator = OpEq -> JsLooseEq(left, right)
      [] operator = OpNe -> ~JsLooseEq(left, right)
      [] operator = OpGt -> JsLess(right, left)
      [] operator = OpLt -> JsLess(left, right)
      [] operator = OpGe -> JsLessEq(right, left)
      [] operator = OpLe -> JsLessEq(left, right)
      [] OTHER -> FALSE


-----------------------------------------------------------------------------
(* Execution context and the condition evaluator                           *)

\* The context object: the keys the handlers set, Unset / "" when absent.
EmptyContext ==
    [triggeredAt |-> Unset, triggerType |-> "", triggerData |-> Unset,
     apiResult |-> Unset, conditionResult |-> "", aiResponse |-> ""]

KeyApiResult == <<"a", "p", "i", "R", "e", "s", "u", "l", "t">>
KeyConditionResult ==
    <<"c", "o", "n", "d", "i", "t", "i", "o", "n", "R", "e", "s", "u", "l", "t">>
KeyTriggerType == <<"t", "r", "i", "g", "g", "e", "r", "T", "y", "p", "e">>
KeyMissing == <<"m", "i", "s", "s", "i", "n", "g">>

\* The characters of the node types a context can carry as triggerType.
TypeChars(type) ==
    CASE type = "trigger" -> <<"t", "r", "i", "g", "g", "e", "r">>
      [] OTHER -> <<"o", "t", "h", "e", "r">>

\* context[k] for a top-level key k.
ContextField(k, context) ==
    CASE k = KeyApiResult ->
            IF context.apiResult = Unset THEN Undefined ELSE Num(context.apiResult)
      [] k = KeyConditionResult ->
            IF context.conditionResult = "" THEN Undefined
            ELSE Bool(context.conditionResult = "true")
      [] k = KeyTriggerType ->
            IF context.triggerType = "" THEN Undefined
            ELSE Str(TypeChars(context.triggerType))
      [] OTHER -> Undefined

\* Nested keys like "user.age": no value of the model's contexts has
\* properties of its own, so a second path element yields undefined.
getContextValue(key, context) ==
    IF Includes(key, <<".">>) THEN Undefined ELSE ContextField(key, context)

\* The operators in the order the evaluator tries them.
operators == <<OpEq, OpNe, OpGt, OpLt, OpGe, OpLe>>

\* const [left, right] = condition.split(op).map(s => s.trim()), and the
\* comparison of the two operands (each operand is bound once, as a value).
SplitAndCompare(condition, context, op) ==
    \E left \in {Trim(SplitFirst(condition, op))} :
        \E right \in {Trim(SplitSecond(condition, op))} :
            \E leftValue \in {getContextValue(left, context)} :
                \E rightValue \in {parseValue(right)} :
                    compareValues(leftValue, rightValue, op)

evaluateSimpleCondition(condition, context) ==
    LET found == { i \in 1..Len(operators) : Includes(condition, operators[i]) }
    IN IF found = {} THEN FALSE
       ELSE \E op \in {operators[CHOOSE i \in found : \A j \in found : i <= j]} :
                SplitAndCompare(condition, context, op)

\* The condition strings given to condition nodes; << >> is a node without
\* a condition string.
CondGreater == KeyApiResult \o <<" ", ">", " ", "1", "0", "0">>
CondAtLeast == KeyApiResult \o <<" ", ">", "=", " ", "1", "0", "0">>
CondExprs == { << >>, CondGreater, CondAtLeast }

\* Response bodies of a successful HTTP request.
ApiData == {100, 150}


-----------------------------------------------------------------------------
(* Graphs given to executeAgentWorkflow                                    *)

Graphs ==
    UNION { { [n |-> sh.n, edges |-> sh.edges, types |-> ty, nodata |-> nd, cond |-> c] :
                ty \in { f \in [1..sh.n -> UNION { TypeChoices(i) : i \in 1..sh.n }] :
                           \A i \in 1..sh.n : f[i] \in TypeChoices(i) },
                nd \in 0..sh.n,
                c \in CondExprs } : sh \in Shapes }

\* A condition string only matters to a graph that has a condition node.
UsesCondition(g) == \E i \in 1..g.n : KindOf(g.types[i]) = "condition"
InputGraphs == { g \in Graphs : ~UsesCondition(g) => g.cond = << >> }

NodeType(id) == graph.types[id]
HasData(id) == graph.nodata # id

\* this.nodes.find(n => n.id === nodeId): the node's index, 0 when there is none.
FindNode(nodeId) == IF nodeId \in 1..graph.n THEN nodeId ELSE 0

FindTriggerNodeOrFirst ==
    LET ts == { i \in 1..graph.n : NodeType(i) \in TriggerTypes }
    IN IF ts = {} THEN 1 ELSE CHOOSE i \in ts : \A j \in ts : i <= j

\* this.nodes.find(n => n.type is a trigger type): the first one, 0 when there is none.
FindTriggerNode ==
    LET ts == { i \in 1..graph.n : NodeType(i) \in TriggerTypes }
    IN IF ts = {} THEN 0 ELSE CHOOSE i \in ts : \A j \in ts : i <= j

NextEdgesFirstOnly(nodeId) ==
    LET es == SelectSeq(graph.edges, LAMBDA e : e.source = nodeId)
    IN IF es = << >> THEN es ELSE <<Head(es)>>

NextEdgesNone(nodeId) == << >>

NextEdgesReversed(nodeId) ==
    LET es == SelectSeq(graph.edges, LAMBDA e : e.source = nodeId)
    IN [i \in 1..Len(es) |-> es[Len(es) + 1 - i]]

\* this.edges.filter(e => e.source === nodeId)
NextEdges(nodeId) == SelectSeq(graph.edges, LAMBDA e : e.source = nodeId)

-----------------------------------------------------------------------------
(* Node handlers                                                           *)

\* services/nodes/triggerNode: stamps triggeredAt, triggerType, triggerData.
triggerNode(nodeId, context) ==
    { [context EXCEPT !.triggeredAt = clock,
                      !.triggerType = NodeType(nodeId),
                      !.triggerData = nodeId] }

\* The timeout of the HTTP request, in milliseconds: the request config of
\* apiCallNode sets none, and axios's default of 0 never ends a request.
RequestTimeout == 0

\* Whether the request settles at all: with a response or an error, or,
\* when the server never answers ("stall"), by its timeout.
RequestSettles == "stall" \notin faults \/ RequestTimeout > 0

\* services/nodes/apiCallNode: the request succeeds with some response body,
\* or fails (an error, a timeout) and the context is returned as it came.
apiCallNode(nodeId, context) ==
    IF "stall" \in faults THEN { context }
    ELSE { [context EXCEPT !.apiResult = d] : d \in ApiData } \cup { context }

\* services/nodes/conditionNode: evaluates the node's condition and merges
\* the boolean as conditionResult; without a condition string either result
\* is possible.
conditionNode(nodeId, context) ==
    LET bs == IF graph.cond = << >> THEN BOOLEAN
              ELSE { evaluateSimpleCondition(graph.cond, context) }
    IN { [context EXCEPT !.conditionResult = IF b THEN "true" ELSE "false"] : b \in bs }

\* The engines a generation attempt can end with: the simulation when no
\* capability is configured ("nokey") or the generation call fails ("ai");
\* otherwise the call answers, or is not made for want of a prompt.
AiEngines ==
    IF "nokey" \in faults \/ "ai" \in faults THEN {"simulation"}
    ELSE {"Gemini", "simulation"}

aiActionNodeGenerationOnly(nodeId, context) ==
    { [context EXCEPT !.aiResponse = "Gemini"] }

\* services/nodes/aiActionNode: the generated block, or the simulated one
\* when the capability is absent or fails, merged into the context.
aiActionNode(nodeId, context) ==
    { [context EXCEPT !.aiResponse = e] : e \in AiEngines }

HandlerResultsUnknownReset(nodeId, context) ==
    CASE KindOf(NodeType(nodeId)) = "trigger" -> triggerNode(nodeId, context)
      [] KindOf(NodeType(nodeId)) = "api" -> apiCallNode(nodeId, context)
      [] KindOf(NodeType(nodeId)) = "condition" -> conditionNode(nodeId, context)
      [] KindOf(NodeType(nodeId)) = "ai" -> aiActionNode(nodeId, context)
      [] OTHER -> { EmptyContext }

\* The switch of executeNode: the contexts the handler of the node may return.
HandlerResults(nodeId, context) ==
    CASE KindOf(NodeType(nodeId)) = "trigger" -> triggerNode(nodeId, context)
      [] KindOf(NodeType(nodeId)) = "api" -> apiCallNode(nodeId, context)
      [] KindOf(NodeType(nodeId)) = "condition" -> conditionNode(nodeId, context)
      [] KindOf(NodeType(nodeId)) = "ai" -> aiActionNode(nodeId, context)
      [] OTHER -> { context }


-----------------------------------------------------------------------------
(* The Execution record: in memory and in the store                        *)

NoRecord ==
    [present |-> FALSE, status |-> "", startTime |-> Unset, endTime |-> Unset,
     duration |-> Unset, error |-> "", logs |-> << >>, results |-> << >>]

\* new Execution({agentId, userId, status: 'running', startTime: new Date()})
NewExecution ==
    [status |-> "running", startTime |-> clock, endTime |-> Unset,
     duration |-> Unset, error |-> "", logs |-> << >>, results |-> << >>]

NoDocument == [NewExecution EXCEPT !.status = "", !.startTime = Unset]

\* Which store operations may reject in this environment.
SaveOutcomes == IF "save" \in faults THEN BOOLEAN ELSE {TRUE}
AppendOutcomes == IF "append" \in faults THEN BOOLEAN ELSE {TRUE}

SaveLogging(st, id, d) ==
    [st EXCEPT ![id] = [present |-> TRUE, status |-> d.status,
                        startTime |-> d.startTime, endTime |-> d.endTime,
                        duration |-> d.duration, error |-> d.error,
                        logs |-> Append(st[id].logs, [timestamp |-> clock, level |-> "info",
                                                      message |-> "Execution saved",
                                                      node |-> 0, data |-> ""]),
                        results |-> st[id].results]]

\* execution.save(): a new document is inserted whole; afterwards only the
\* paths assigned on the document (status, endTime, duration, error) are written.
Save(st, id, d) ==
    IF ~st[id].present
    THEN [st EXCEPT ![id] = [present |-> TRUE, status |-> d.status,
                             startTime |-> d.startTime, endTime |-> d.endTime,
                             duration |-> d.duration, error |-> d.error,
                             logs |-> d.logs, results |-> d.results]]
    ELSE [st EXCEPT ![id].status = d.status, ![id].endTime = d.endTime,
                    ![id].duration = d.duration, ![id].error = d.error]

LogEntry(level, message, node, data) ==
    [timestamp |-> clock, level |-> level, message |-> message, node |-> node,
     data |-> data]

logToFirstRecord(st, id, entry, ok) ==
    IF ok THEN [st EXCEPT ![1].logs = Append(@, entry)] ELSE st

\* AgentExecutor.log: $push to logs; a rejected update is caught and dropped.
log(st, id, entry, ok) ==
    IF ok THEN [st EXCEPT ![id].logs = Append(@, entry)] ELSE st

addResultReplacing(st, id, result, ok) ==
    IF ok THEN [st EXCEPT ![id].results = <<result>>] ELSE st

addResultInFront(st, id, result, ok) ==
    IF ok THEN [st EXCEPT ![id].results = <<result>> \o @] ELSE st

\* AgentExecutor.addResult: $push to results; a rejected update is caught and dropped.
addResult(st, id, result, ok) ==
    IF ok THEN [st EXCEPT ![id].results = Append(@, result)] ELSE st

AfterAppendThrowing(ok, next) == IF ok THEN next ELSE "catch_execute"

\* Where the caller of log / addResult continues: the rejection of the
\* update is caught inside (console.error), so at `next` either way.
AfterAppend(ok, next) == next

-----------------------------------------------------------------------------
(* Initial state                                                           *)

InitWith(graphs, faultSets, runSets) ==
    /\ graph \in graphs
    /\ faults \in faultSets
    /\ active \in runSets
    /\ store = [id \in Runs |-> NoRecord]
    /\ nextId = 1
    /\ clock = 1
    /\ pc = [r \in Runs |-> "idle"]
    /\ execId = [r \in Runs |-> 0]
    /\ doc = [r \in Runs |-> NoDocument]
    /\ stack = [r \in Runs |-> << >>]
    /\ err = [r \in Runs |-> ""]
    /\ outcome = [r \in Runs |-> "pending"]
    /\ thrown = [r \in Runs |-> ""]
    /\ visits = [r \in Runs |-> 0]

\* One call, a store that never rejects.
Init == InitWith(InputGraphs, {{}}, {{1}})

env == <<graph, faults, active>>

-----------------------------------------------------------------------------
(* executeAgentWorkflow and AgentExecutor.execute                          *)

\* executeAgentWorkflow is called: the document is constructed.
CreateExecution(r) ==
    /\ r \in active
    /\ pc[r] = "idle"
    /\ doc' = [doc EXCEPT ![r] = NewExecution]
    /\ execId' = [execId EXCEPT ![r] = nextId]
    /\ nextId' = nextId + 1
    /\ pc' = [pc EXCEPT ![r] = "save_new"]
    /\ clock' = clock + 1
    /\ UNCHANGED <<env, store, stack, err, outcome, thrown, visits>>

\* await execution.save() before the try block: a rejection goes to the caller.
SaveNew(r) ==
    /\ pc[r] = "save_new"
    /\ \E ok \in SaveOutcomes :
        /\ store' = IF ok THEN Save(store, execId[r], doc[r]) ELSE store
        /\ pc' = [pc EXCEPT ![r] = IF ok THEN "log_start" ELSE "done"]
        /\ outcome' = [outcome EXCEPT ![r] = IF ok THEN @ ELSE "thrown"]
        /\ thrown' = [thrown EXCEPT ![r] = IF ok THEN @ ELSE "save rejected"]
    /\ clock' = clock + 1
    /\ UNCHANGED <<env, nextId, execId, doc, stack, err, visits>>

\* execute: await this.log('info', 'Starting agent execution')
LogStart(r) ==
    /\ pc[r] = "log_start"
    /\ \E ok \in AppendOutcomes :
        /\ store' = log(store, execId[r],
                        LogEntry("info", "Starting agent execution", 0, ""), ok)
        /\ pc' = [pc EXCEPT ![r] = AfterAppend(ok, "find_trigger")]
    /\ clock' = clock + 1
    /\ UNCHANGED <<env, nextId, execId, doc, stack, err, outcome, thrown, visits>>

\* What execute does with the node it looks for: the error it throws, or ""
\* when it goes on to log 'Trigger found'.
TriggerError ==
    IF FindTriggerNode = 0 THEN "No trigger node found"
    ELSE IF ~HasData(FindTriggerNode) THEN "TypeError"
    ELSE ""

FindTrigger(r) ==
    /\ pc[r] = "find_trigger"
    /\ \E ok \in AppendOutcomes :
        /\ store' = IF TriggerError = ""
                    THEN log(store, execId[r],
                             LogEntry("info", "Trigger found", FindTriggerNode, ""), ok)
                    ELSE store
        /\ pc' = [pc EXCEPT ![r] = IF TriggerError = ""
                                   THEN AfterAppend(ok, "call_root")
                                   ELSE "catch_execute"]
    /\ err' = [err EXCEPT ![r] = TriggerError]
    /\ clock' = clock + 1
    /\ UNCHANGED <<env, nextId, execId, doc, stack, outcome, thrown, visits>>

Frame(nodeId, context, parent) ==
    [node |-> nodeId, context |-> context, result |-> context, phase |-> "enter",
     idx |-> 1, visit |-> 0, parent |-> parent]

\* const results = await this.executeNode(triggerNode.id, {})
CallRoot(r) ==
    /\ pc[r] = "call_root"
    /\ stack' = [stack EXCEPT ![r] = <<Frame(FindTriggerNode, EmptyContext, 0)>>]
    /\ pc' = [pc EXCEPT ![r] = "walk"]
    /\ clock' = clock + 1
    /\ UNCHANGED <<env, store, nextId, execId, doc, err, outcome, thrown, visits>>


-----------------------------------------------------------------------------
(* AgentExecutor.executeNode                                               *)

Top(r) == stack[r][Len(stack[r])]

SetTop(r, f) == [stack EXCEPT ![r][Len(stack[r])] = f]

AfterChildAssigned(result, returned) == returned

\* What the caller of executeNode keeps of its own `result` once the call
\* for a successor has returned `returned`: the value is not assigned.
AfterChild(result, returned) == result

\* The innermost executeNode call returns `returned` to its caller.
Return(r, returned) ==
    LET n == Len(stack[r])
        rest == SubSeq(stack[r], 1, n - 1)
    IN /\ stack' = [stack EXCEPT ![r] =
                      IF n = 1 THEN << >>
                      ELSE [rest EXCEPT ![n - 1].result = AfterChild(@, returned)]]
       /\ pc' = [pc EXCEPT ![r] = IF n = 1 THEN "log_completed" ELSE "walk"]

\* What entering a node does: "return" when no node has the id, "throw" when
\* reading node.data.label fails, "log" otherwise.
EnterOutcome(nodeId) ==
    IF FindNode(nodeId) = 0 THEN "return"
    ELSE IF ~HasData(nodeId) THEN "throw"
    ELSE "log"

\* const node = find(...); if (!node) return context;
\* await this.log('info', `Executing node: ...`)
EnterNode(r) ==
    /\ pc[r] = "walk"
    /\ Top(r).phase = "enter"
    /\ \E ok \in AppendOutcomes :
        LET f == Top(r)
            what == EnterOutcome(f.node)
        IN /\ IF what = "return" THEN Return(r, f.context)
              ELSE IF what = "throw"
              THEN /\ stack' = [stack EXCEPT ![r] = << >>]
                   /\ pc' = [pc EXCEPT ![r] = "catch_execute"]
              ELSE /\ stack' = SetTop(r, [f EXCEPT !.phase = "dispatch"])
                   /\ pc' = [pc EXCEPT ![r] = AfterAppend(ok, "walk")]
           /\ err' = [err EXCEPT ![r] = IF what = "throw" THEN "TypeError" ELSE @]
           /\ store' = IF what = "log"
                       THEN log(store, execId[r],
                                LogEntry("info", "Executing node", f.node, ""), ok)
                       ELSE store
    /\ clock' = clock + 1
    /\ UNCHANGED <<env, nextId, execId, doc, outcome, thrown, visits>>

\* switch (node.type): the handler runs; an unknown type logs a warning.
DispatchNode(r) ==
    /\ pc[r] = "walk"
    /\ Top(r).phase = "dispatch"
    /\ KindOf(NodeType(Top(r).node)) = "api" => RequestSettles
    /\ LET f == Top(r)
       IN /\ \E res \in HandlerResults(f.node, f.context) :
                stack' = SetTop(r, [f EXCEPT !.result = res, !.phase = "store",
                                             !.visit = visits[r] + 1])
          /\ \E ok \in AppendOutcomes :
                IF KindOf(NodeType(f.node)) = "unknown"
                THEN /\ store' = log(store, execId[r],
                                     LogEntry("warning", "Unknown node type", f.node, ""),
                                     ok)
                     /\ pc' = [pc EXCEPT ![r] = AfterAppend(ok, "walk")]
                ELSE UNCHANGED <<store, pc>>
    /\ visits' = [visits EXCEPT ![r] = @ + 1]
    /\ clock' = clock + 1
    /\ UNCHANGED <<env, nextId, execId, doc, err, outcome, thrown>>

NodeResult(f) ==
    [nodeId |-> f.node, nodeType |-> NodeType(f.node), result |-> f.result,
     visit |-> f.visit, parent |-> f.parent]

\* await this.addResult({nodeId, nodeType, nodeLabel, result})
StoreResult(r) ==
    /\ pc[r] = "walk"
    /\ Top(r).phase = "store"
    /\ \E ok \in AppendOutcomes :
        /\ store' = addResult(store, execId[r], NodeResult(Top(r)), ok)
        /\ pc' = [pc EXCEPT ![r] = AfterAppend(ok, "walk")]
    /\ stack' = SetTop(r, [Top(r) EXCEPT !.phase = "next"])
    /\ clock' = clock + 1
    /\ UNCHANGED <<env, nextId, execId, doc, err, outcome, thrown, visits>>

\* for (const edge of nextEdges) await this.executeNode(edge.target, result)
NextEdge(r) ==
    /\ pc[r] = "walk"
    /\ Top(r).phase = "next"
    /\ Top(r).idx <= Len(NextEdges(Top(r).node))
    /\ Len(stack[r]) < MaxDepth
    /\ LET f == Top(r)
           e == NextEdges(f.node)[f.idx]
       IN stack' = [stack EXCEPT ![r] =
                      Append(SetTop(r, [f EXCEPT !.idx = @ + 1])[r],
                             Frame(e.target, f.result, f.visit))]
    /\ clock' = clock + 1
    /\ UNCHANGED <<env, store, nextId, execId, doc, pc, err, outcome, thrown, visits>>

\* return result, after the last outgoing edge
ReturnNode(r) ==
    /\ pc[r] = "walk"
    /\ Top(r).phase = "next"
    /\ Top(r).idx > Len(NextEdges(Top(r).node))
    /\ Return(r, Top(r).result)
    /\ clock' = clock + 1
    /\ UNCHANGED <<env, store, nextId, execId, doc, err, outcome, thrown, visits>>

-----------------------------------------------------------------------------
(* The end of execute and of executeAgentWorkflow                          *)

\* await this.log('info', 'Agent execution completed successfully'); return
LogCompleted(r) ==
    /\ pc[r] = "log_completed"
    /\ \E ok \in AppendOutcomes :
        /\ store' = log(store, execId[r],
                        LogEntry("info", "Agent execution completed successfully", 0, ""),
                        ok)
        /\ pc' = [pc EXCEPT ![r] = AfterAppend(ok, "set_completed")]
    /\ clock' = clock + 1
    /\ UNCHANGED <<env, nextId, execId, doc, stack, err, outcome, thrown, visits>>

MarkCompletedStatusKept(d) ==
    [d EXCEPT !.endTime = clock, !.duration = clock - d.startTime]

\* status = 'completed'; endTime = new Date(); duration = endTime - startTime
MarkCompleted(d) ==
    [d EXCEPT !.status = "completed", !.endTime = clock,
              !.duration = clock - d.startTime]

SetCompleted(r) ==
    /\ pc[r] = "set_completed"
    /\ doc' = [doc EXCEPT ![r] = MarkCompleted(@)]
    /\ pc' = [pc EXCEPT ![r] = "save_completed"]
    /\ clock' = clock + 1
    /\ UNCHANGED <<env, store, nextId, execId, stack, err, outcome, thrown, visits>>

\* await execution.save(); return execution -- a rejection enters the catch block
SaveCompleted(r) ==
    /\ pc[r] = "save_completed"
    /\ \E ok \in SaveOutcomes :
        /\ store' = IF ok THEN Save(store, execId[r], doc[r]) ELSE store
        /\ pc' = [pc EXCEPT ![r] = IF ok THEN "done" ELSE "mark_failed"]
        /\ outcome' = [outcome EXCEPT ![r] = IF ok THEN "returned" ELSE @]
        /\ err' = [err EXCEPT ![r] = IF ok THEN @ ELSE "save rejected"]
    /\ clock' = clock + 1
    /\ UNCHANGED <<env, nextId, execId, doc, stack, thrown, visits>>

\* execute's catch: await this.log('error', 'Agent execution failed', ...); throw error
CatchExecute(r) ==
    /\ pc[r] = "catch_execute"
    /\ \E ok \in AppendOutcomes :
        /\ store' = log(store, execId[r],
                        LogEntry("error", "Agent execution failed", 0, err[r]), ok)
        /\ pc' = [pc EXCEPT ![r] = AfterAppend(ok, "mark_failed")]
    /\ clock' = clock + 1
    /\ UNCHANGED <<env, nextId, execId, doc, stack, err, outcome, thrown, visits>>

MarkFailedDocErrorDropped(d, message) ==
    [d EXCEPT !.status = "failed", !.endTime = clock]

\* status = 'failed'; endTime = new Date(); error = error.message
MarkFailedDoc(d, message) ==
    [d EXCEPT !.status = "failed", !.endTime = clock, !.error = message]

MarkFailed(r) ==
    /\ pc[r] = "mark_failed"
    /\ doc' = [doc EXCEPT ![r] = MarkFailedDoc(@, err[r])]
    /\ pc' = [pc EXCEPT ![r] = "save_failed"]
    /\ clock' = clock + 1
    /\ UNCHANGED <<env, store, nextId, execId, stack, err, outcome, thrown, visits>>

\* await execution.save(); throw error -- a rejected save is thrown instead
SaveFailed(r) ==
    /\ pc[r] = "save_failed"
    /\ \E ok \in SaveOutcomes :
        /\ store' = IF ok THEN Save(store, execId[r], doc[r]) ELSE store
        /\ thrown' = [thrown EXCEPT ![r] = IF ok THEN err[r] ELSE "save rejected"]
    /\ outcome' = [outcome EXCEPT ![r] = "thrown"]
    /\ pc' = [pc EXCEPT ![r] = "done"]
    /\ clock' = clock + 1
    /\ UNCHANGED <<env, nextId, execId, doc, stack, err, visits>>

-----------------------------------------------------------------------------
(* Specifications                                                          *)

Step(r) ==
    \/ CreateExecution(r)
    \/ SaveNew(r)
    \/ LogStart(r)
    \/ FindTrigger(r)
    \/ CallRoot(r)
    \/ EnterNode(r)
    \/ DispatchNode(r)
    \/ StoreResult(r)
    \/ NextEdge(r)
    \/ ReturnNode(r)
    \/ LogCompleted(r)
    \/ SetCompleted(r)
    \/ SaveCompleted(r)
    \/ CatchExecute(r)
    \/ MarkFailed(r)
    \/ SaveFailed(r)

Next == \E r \in Runs : Step(r)

Spec == Init /\ [][Next]_vars


\* The graphs of InputGraphs that name each kind of node by one type only.
PlainTypes == {"trigger", "email", "apiCall", "condition", "aiAction"}
PlainGraphs == { g \in InputGraphs : \A i \in 1..g.n : g.types[i] \in PlainTypes }

\* One call over a plain graph, a store that never rejects. The event loop
\* resumes a call whenever the promise it awaits has settled.
InitFair == InitWith(PlainGraphs, {{}}, {{1}})
FairSpec == InitFair /\ [][Next]_vars /\ WF_vars(Next)

\* One call, a store whose save() may reject.
InitSaveFaults == InitWith(InputGraphs, {{"save"}}, {{1}})
SpecSaveFaults == InitSaveFaults /\ [][Next]_vars

\* Condition strings "key op literal": a key an API response sets, a key no
\* handler sets and a dotted path; each operator; a number equal to one
\* response body and one above it, a boolean and a quoted string.
KeyNested == <<"u", "s", "e", "r", ".", "a", "g", "e">>
LitHundred == <<"1", "0", "0">>
LitHundredFifty == <<"1", "5", "0">>
LitQuoted == <<"'", "r", "e", "d", "'">>
EvalKeys == { KeyApiResult, KeyMissing, KeyNested }
EvalLiterals == { LitHundred, LitHundredFifty, CharsTrue, LitQuoted }
EvalOperators == { operators[i] : i \in 1..Len(operators) }
CondOf(key, op, lit) == key \o <<" ">> \o op \o <<" ">> \o lit
EvalConds == { CondOf(key, op, lit) : key \in EvalKeys, op \in EvalOperators,
                                      lit \in EvalLiterals }

\* trigger -> apiCall -> condition, the condition node with or without data.
EvalGraphs ==
    { [n |-> 3, edges |-> <<Edge(1, 2), Edge(2, 3)>>,
       types |-> <<"trigger", "apiCall", "condition">>, nodata |-> nd, cond |-> c] :
          nd \in {0, 3}, c \in EvalConds }

\* One call that evaluates one condition string on what the API node returned.
InitEval == InitWith(EvalGraphs, {{}}, {{1}})
EvalSpec == InitEval /\ [][Next]_vars

\* Two calls that interleave, both for the same graph: a trigger, with or
\* without a data object, and an edge to a missing node.
ConcurrentGraphs ==
    { [n |-> 1, edges |-> <<Edge(1, 2)>>, types |-> <<"trigger">>,
       nodata |-> nd, cond |-> << >>] : nd \in {0, 1} }
InitConcurrent == InitWith(ConcurrentGraphs, {{}}, {{1, 2}})

\* Run r is in the middle of synchronous code, between the settling of one
\* awaited promise and the next await: about to throw for want of a
\* trigger, about to call executeNode for the trigger, about to enter the
\* loop over nextEdges after addResult, or inside an executeNode call that
\* returns or throws before its first await.
Synchronous(r) ==
    \/ pc[r] = "find_trigger" /\ TriggerError # ""
    \/ pc[r] = "call_root"
    \/ pc[r] = "walk" /\ Top(r).phase = "next" /\ Top(r).idx = 1
    \/ pc[r] = "walk" /\ Top(r).phase = "enter" /\ EnterOutcome(Top(r).node) # "log"

\* The event loop runs one call at a time and switches between calls only
\* where they await.
NextEventLoop ==
    \E r \in Runs : (\A q \in Runs \ {r} : ~Synchronous(q)) /\ Step(r)

SpecConcurrent == InitConcurrent /\ [][NextEventLoop]_vars

\* One call over a plain graph, against a server that never answers.
InitStall == InitWith(PlainGraphs, {{"stall"}}, {{1}})
FairStallSpec == InitStall /\ [][Next]_vars /\ WF_vars(Next)

\* One call over a plain graph, without a generation capability or with one
\* whose calls fail.
InitAiFaults == InitWith(PlainGraphs, {{"nokey"}, {"ai"}}, {{1}})
SpecAiFaults == InitAiFaults /\ [][Next]_vars

\* One call over a plain graph, with a store that never rejects or with one
\* whose $push updates may each reject.
AppendShapes ==
    { << >>,
      <<Edge(1, 2), Edge(2, 3)>>,
      <<Edge(1, 2), Edge(1, 3)>>,
      <<Edge(1, 2), Edge(1, 2)>> }
AppendGraphs == { g \in PlainGraphs : g.edges \in AppendShapes }
InitAppendFaults == InitWith(AppendGraphs, {{}, {"append"}}, {{1}})
SpecAppendFaults == InitAppendFaults /\ [][Next]_vars

-----------------------------------------------------------------------------
(* Graph notions used by the properties                                    *)

Triggers == { i \in 1..graph.n : NodeType(i) \in TriggerTypes }
ExactlyOneTrigger == Cardinality(Triggers) = 1

Successors(i) == { graph.edges[k].target : k \in { j \in 1..Len(graph.edges) :
                                                     graph.edges[j].source = i } }
                    \cap (1..graph.n)

RECURSIVE ReachableWithin(_, _)
ReachableWithin(S, k) ==
    IF k = 0 THEN S
    ELSE ReachableWithin(S \cup UNION { Successors(i) : i \in S }, k - 1)

\* The nodes on some path from node i, i included.
ReachableFrom(i) == ReachableWithin({i}, graph.n)

OnCycle(i) == \E j \in Successors(i) : i \in ReachableFrom(j)

\* A cycle can be reached from the node the walk starts at.
CycleReachable ==
    FindTriggerNode # 0 /\ \E i \in ReachableFrom(FindTriggerNode) : OnCycle(i)

\* The number of paths that start at node i (a path ends at each node it
\* passes), counted to depth k; an edge to a missing node starts no path.
RECURSIVE PathCount(_, _)
RECURSIVE PathCountEdges(_, _)
PathCount(i, k) ==
    IF i \notin 1..graph.n \/ k = 0 THEN 0
    ELSE 1 + PathCountEdges(SelectSeq(graph.edges, LAMBDA e : e.source = i), k - 1)
PathCountEdges(es, k) ==
    IF es = << >> THEN 0
    ELSE PathCount(Head(es).target, k) + PathCountEdges(Tail(es), k)

\* Node visits of a complete walk from the trigger.
WalkVisits == PathCount(FindTriggerNode, graph.n + 1)

Record(r) == IF execId[r] = 0 THEN NoRecord ELSE store[execId[r]]
TerminalStatus == {"completed", "failed"}


-----------------------------------------------------------------------------
(* C1: termination                                                         *)

\* The call has handed back (returned or thrown) and the record, in memory
\* and in the store, carries a terminal status.
Ended(r) ==
    /\ outcome[r] # "pending"
    /\ doc[r].status \in TerminalStatus
    /\ Record(r).status \in TerminalStatus

DepthCapped(r) ==
    /\ pc[r] = "walk"
    /\ Top(r).phase = "next"
    /\ Top(r).idx <= Len(NextEdges(Top(r).node))
    /\ Len(stack[r]) >= MaxDepth


\* The walk is cut at MaxDepth only while a node is entered again inside
\* its own call, which the walker then repeats without end.
DepthCapOnlyOnCycle ==
    \A r \in Runs :
        DepthCapped(r) =>
            /\ CycleReachable
            /\ \E i, j \in 1..Len(stack[r]) : i < j /\ stack[r][i].node = stack[r][j].node

-----------------------------------------------------------------------------
(* C2: a graph without a trigger node                                      *)

NoTriggerMessage == "No trigger node found"

\* C2: on a graph with no node of a trigger type no handler is dispatched
\* and no NodeResult is appended; the call fails with 'No trigger node
\* found' and the record is stored 'failed' with that message.
C2_NoTriggerFails ==
    \A r \in active :
        Triggers = {} =>
            /\ visits[r] = 0
            /\ stack[r] = << >>
            /\ Record(r).results = << >>
            /\ outcome[r] # "returned"
            /\ pc[r] = "done" =>
                /\ outcome[r] = "thrown"
                /\ thrown[r] = NoTriggerMessage
                /\ Record(r).present
                /\ Record(r).status = "failed"
                /\ Record(r).error = NoTriggerMessage

\* The call on a graph of three nodes, none a trigger, has thrown.
C2_Witness ==
    /\ Triggers = {} /\ graph.n = 3 /\ Len(graph.edges) = 3
    /\ outcome[1] = "thrown" /\ thrown[1] = NoTriggerMessage
    /\ Record(1).status = "failed"

-----------------------------------------------------------------------------
(* C3: branch selection after a condition node                             *)

\* The position, among the outgoing edges of a condition node, of the edge
\* its result selects: the first when true, the second when false, the
\* first when there is only one.
SelectedEdge(f) ==
    IF f.result.conditionResult = "true" \/ Len(NextEdges(f.node)) < 2 THEN 1 ELSE 2

\* C3: after a condition (or ifElse) node has executed, the walker follows
\* exactly one of its outgoing edges, the one its boolean result selects;
\* the targets of the other outgoing edges are not visited through it.
C3_FollowsSelectedEdgeOnly ==
    \A r \in active :
        \A k \in 1..Len(stack[r]) :
            LET f == stack[r][k]
            IN (FindNode(f.node) # 0 /\ KindOf(NodeType(f.node)) = "condition"
                    /\ f.phase = "next")
                => \A e \in 1..(f.idx - 1) :
                       FindNode(NextEdges(f.node)[e].target) # 0 => e = SelectedEdge(f)

-----------------------------------------------------------------------------
(* C4: the record handed to the caller                                     *)

\* C4: the record the caller obtains carries the status of the run and
\* every log entry and NodeResult appended during it, also when it fails.
C4_CallerSeesLogsAndResults ==
    \A r \in active :
        outcome[r] # "pending" =>
            /\ doc[r].status = Record(r).status
            /\ doc[r].logs = Record(r).logs
            /\ doc[r].results = Record(r).results


-----------------------------------------------------------------------------
(* C5: the status changes once                                             *)

\* C5: once the status of an Execution is 'completed' or 'failed' it never
\* changes again, in any sequence of steps including rejected store calls
\* (the in-memory document and the stored record alike).
C5_TerminalStatusIsFinal ==
    [][\A r \in Runs :
          /\ doc[r].status \in TerminalStatus => doc'[r].status = doc[r].status
          /\ Record(r).status \in TerminalStatus =>
                 Record(r)'.status = Record(r).status]_vars

-----------------------------------------------------------------------------
(* C6: a run that fails                                                    *)

\* C6: when an exception escapes the walk, the document gets status
\* 'failed', the exception's message as error and an endTime, and is saved
\* so before the exception reaches the caller.
C6_FailureIsRecorded ==
    \A r \in active :
        (pc[r] = "done" /\ err[r] # "") =>
            /\ outcome[r] = "thrown"
            /\ thrown[r] = err[r]
            /\ doc[r].status = "failed"
            /\ doc[r].error = err[r]
            /\ doc[r].endTime # Unset
            /\ Record(r).status = "failed"
            /\ Record(r).error = err[r]
            /\ Record(r).endTime = doc[r].endTime

\* A node without data was reached after two nodes had been executed.
C6_Witness ==
    /\ pc[1] = "done" /\ err[1] = "TypeError" /\ visits[1] >= 2
    /\ outcome[1] = "thrown" /\ Record(1).status = "failed"

-----------------------------------------------------------------------------
(* C7: completion                                                          *)

Completed(rec) ==
    rec.status = "completed" =>
        /\ rec.endTime # Unset
        /\ rec.duration = rec.endTime - rec.startTime
        /\ rec.duration >= 0

\* C7: the status becomes 'completed' only after every node visit on every
\* path from the trigger has finished; endTime is then set and duration is
\* endTime - startTime, which is not negative.
C7_CompletedAfterWholeWalk ==
    \A r \in active :
        /\ Completed(doc[r])
        /\ Completed(Record(r))
        /\ (doc[r].status = "completed" \/ Record(r).status = "completed") =>
              /\ stack[r] = << >>
              /\ pc[r] \in {"save_completed", "done"}
              /\ visits[r] = WalkVisits
              /\ Len(Record(r).results) = WalkVisits

\* A walk that branches and visits a node twice has completed.
C7_Witness ==
    /\ Record(1).status = "completed" /\ doc[1].status = "completed"
    /\ visits[1] >= 5 /\ Record(1).duration > 0

-----------------------------------------------------------------------------
(* C8: one NodeResult per node visit                                       *)

IsPrefix(a, b) == Len(a) <= Len(b) /\ SubSeq(b, 1, Len(a)) = a

\* C8: at the end of a run there are as many NodeResult entries as node
\* visits were performed, a node reached along k paths being recorded k
\* times; entries once appended are never removed, also when a later node
\* fails.
C8_OneResultPerVisit ==
    /\ [](\A r \in active :
            /\ Len(Record(r).results) <= visits[r]
            /\ pc[r] = "done" => Len(Record(r).results) = visits[r]
            /\ (pc[r] = "done" /\ outcome[r] = "returned") =>
                   Len(Record(r).results) = WalkVisits)
    /\ [][\A r \in Runs : IsPrefix(Record(r).results, Record(r)'.results)]_vars

\* A run failed at a node after two node visits had been recorded.
C8_Witness ==
    /\ pc[1] = "done" /\ outcome[1] = "thrown" /\ err[1] = "TypeError"
    /\ Len(Record(1).results) >= 2

\* A run recorded one node twice.
C8_WitnessTwice ==
    /\ pc[1] = "done" /\ outcome[1] = "returned"
    /\ \E i, j \in 1..Len(Record(1).results) :
          i < j /\ Record(1).results[i].nodeId = Record(1).results[j].nodeId


-----------------------------------------------------------------------------
(* C9: a node's result is recorded before its successors start             *)

ResultOf(r, visit) ==
    { i \in 1..Len(Record(r).results) : Record(r).results[i].visit = visit }

\* C9: the NodeResult of a node visit is appended after the node's handler
\* has returned and before the executeNode call of any successor starts;
\* so in results the entry of a visit precedes those of the visits below it.
C9_ResultBeforeSuccessors ==
    \A r \in active :
        /\ \A k \in 1..Len(stack[r]) :
              /\ stack[r][k].phase \in {"enter", "dispatch", "store"} =>
                    ResultOf(r, stack[r][k].visit) = {}
              /\ stack[r][k].phase = "next" =>
                    \E i \in ResultOf(r, stack[r][k].visit) :
                        Record(r).results[i].result = stack[r][k].result
              /\ k > 1 => stack[r][k - 1].phase = "next"
        /\ \A j \in 1..Len(Record(r).results) :
              Record(r).results[j].parent # 0 =>
                  \E i \in 1..(j - 1) :
                      Record(r).results[i].visit = Record(r).results[j].parent

\* The second successor of a node is being executed, after the subtree of
\* the first one recorded two visits.
C9_Witness ==
    /\ Len(stack[1]) = 2 /\ stack[1][1].idx = 3 /\ stack[1][2].phase = "next"
    /\ Len(Record(1).results) >= 4

-----------------------------------------------------------------------------
(* C10: context fan-out                                                    *)

\* C10: every child of a node is executed with exactly the context the
\* node's handler produced (the one recorded in the node's NodeResult);
\* what the subtree of an earlier sibling added does not reach a later one.
C10_ChildrenGetParentResult ==
    \A r \in active :
        \A k \in 2..Len(stack[r]) :
            /\ stack[r][k].context = stack[r][k - 1].result
            /\ \A i \in ResultOf(r, stack[r][k - 1].visit) :
                  stack[r][k].context = Record(r).results[i].result

\* A second child runs after its elder sibling returned a context that
\* differs from the one their parent produced.
C10_Witness ==
    /\ Len(stack[1]) >= 2
    /\ LET k == Len(stack[1])
           p == stack[1][k - 1]
       IN /\ p.idx = 3
          /\ stack[1][k].phase = "dispatch"
          /\ \E i \in 1..Len(Record(1).results) :
                /\ Record(1).results[i].parent = p.visit
                /\ Record(1).results[i].result # p.result

-----------------------------------------------------------------------------
(* C11: nodes of an unknown type                                           *)

UnknownNode(id) == FindNode(id) # 0 /\ KindOf(NodeType(id)) = "unknown"

\* C11: the visit of a node of an unknown type appends a 'warning' log
\* entry and a NodeResult, hands the input context unchanged to the
\* successors, and does not fail the run: with a trigger and data on every
\* node the run ends 'completed' after the whole walk.
C11_UnknownTypeIsPassedThrough ==
    \A r \in active :
        /\ \A k \in 1..Len(stack[r]) :
              LET f == stack[r][k]
              IN (UnknownNode(f.node) /\ f.phase \in {"store", "next"}) =>
                    /\ f.result = f.context
                    /\ \E i \in 1..Len(Record(r).logs) :
                          /\ Record(r).logs[i].level = "warning"
                          /\ Record(r).logs[i].node = f.node
                    /\ f.phase = "next" =>
                          \E i \in ResultOf(r, f.visit) :
                              /\ Record(r).results[i].nodeId = f.node
                              /\ Record(r).results[i].result = f.context
                    /\ k < Len(stack[r]) => stack[r][k + 1].context = f.context
        /\ (FindTriggerNode # 0 /\ graph.nodata = 0 /\ pc[r] = "done") =>
              /\ outcome[r] = "returned"
              /\ Record(r).status = "completed"
              /\ Len(Record(r).results) = WalkVisits

\* A run completed after a node of an unknown type handed the trigger's
\* context to a successor.
C11_Witness ==
    /\ pc[1] = "done" /\ Record(1).status = "completed"
    /\ \E i, j \in 1..Len(Record(1).results) :
          /\ UnknownNode(Record(1).results[i].nodeId)
          /\ Record(1).results[i].result.triggerType # ""
          /\ Record(1).results[j].parent = Record(1).results[i].visit
          /\ \E l \in 1..Len(Record(1).logs) :
                /\ Record(1).logs[l].level = "warning"
                /\ Record(1).logs[l].node = Record(1).results[i].nodeId

-----------------------------------------------------------------------------
(* C12: an API node whose request fails                                    *)

\* The NodeResult of an API node whose request failed: a response would
\* have set apiResult, here and in every context derived from it.
ApiRequestFailed(res) ==
    /\ FindNode(res.nodeId) # 0
    /\ KindOf(res.nodeType) = "api"
    /\ res.result.apiResult = Unset

\* C12: when the request of an API node fails, an 'error' log entry for the
\* node is appended to the Execution, the node's result is its input
\* context, and the run ends 'completed' when nothing else fails.
C12_ApiFailureIsLoggedAndPassed ==
    \A r \in active :
        \A i \in 1..Len(Record(r).results) :
            LET res == Record(r).results[i]
            IN ApiRequestFailed(res) =>
                  /\ \E l \in 1..Len(Record(r).logs) :
                        /\ Record(r).logs[l].level = "error"
                        /\ Record(r).logs[l].node = res.nodeId
                  /\ \A p \in ResultOf(r, res.parent) :
                        Record(r).results[p].result = res.result
                  /\ (graph.nodata = 0 /\ pc[r] = "done") =>
                        Record(r).status = "completed"

-----------------------------------------------------------------------------
(* C13: rejected appends                                                   *)

\* The nodes of the graph in depth-first order from node i, successors in
\* edge-list order, to depth k; an edge to a missing node contributes none.
RECURSIVE Preorder(_, _)
RECURSIVE PreorderEdges(_, _)
Preorder(i, k) ==
    IF i \notin 1..graph.n \/ k = 0 THEN << >>
    ELSE <<i>> \o PreorderEdges(SelectSeq(graph.edges, LAMBDA e : e.source = i), k - 1)
PreorderEdges(es, k) ==
    IF es = << >> THEN << >>
    ELSE Preorder(Head(es).target, k) \o PreorderEdges(Tail(es), k)

WalkOrder == Preorder(FindTriggerNode, MaxDepth)

\* The visits a walk performs: those of WalkOrder before the first node
\* without a data object, whose label cannot be read.
ExpectedVisits ==
    LET bad == { i \in 1..Len(WalkOrder) : ~HasData(WalkOrder[i]) }
    IN IF bad = {} THEN WalkOrder
       ELSE SubSeq(WalkOrder, 1, (CHOOSE i \in bad : \A j \in bad : i <= j) - 1)

\* The status a run over the graph ends with, as the graph alone decides it.
ExpectedStatus ==
    IF FindTriggerNode # 0 /\ ExpectedVisits = WalkOrder THEN "completed" ELSE "failed"

\* C13: whichever log and result appends the store rejects, the walker
\* visits the nodes the graph prescribes, in that order, and the run ends
\* with the status the graph prescribes: the same as with no rejection.
C13_AppendFailuresDoNotAbort ==
    \A r \in active :
        /\ visits[r] <= Len(ExpectedVisits)
        /\ \A k \in 1..Len(stack[r]) :
              stack[r][k].visit > 0 =>
                  stack[r][k].node = ExpectedVisits[stack[r][k].visit]
        /\ pc[r] = "done" =>
              /\ visits[r] = Len(ExpectedVisits)
              /\ doc[r].status = ExpectedStatus
              /\ Record(r).status = ExpectedStatus
              /\ outcome[r] = IF ExpectedStatus = "completed" THEN "returned" ELSE "thrown"

\* A run over three nodes completed although the store rejected every
\* result append and some log appends.
C13_Witness ==
    /\ "append" \in faults
    /\ pc[1] = "done" /\ Record(1).status = "completed" /\ visits[1] = 3
    /\ Record(1).results = << >>
    /\ Len(Record(1).logs) = 2

\* A run failed at a node without data although the store rejected appends,
\* the 'Agent execution failed' entry among them.
C13_WitnessFailed ==
    /\ "append" \in faults
    /\ pc[1] = "done" /\ Record(1).status = "failed" /\ visits[1] = 2
    /\ Len(Record(1).results) = 1
    /\ \A l \in 1..Len(Record(1).logs) : Record(1).logs[l].level # "error"

-----------------------------------------------------------------------------
(* C14, C15: the condition evaluator                                       *)

\* The executeNode calls of run r that are about to run a condition handler.
ConditionCalls(r) ==
    { k \in 1..Len(stack[r]) :
        /\ FindNode(stack[r][k].node) # 0
        /\ KindOf(NodeType(stack[r][k].node)) = "condition"
        /\ stack[r][k].phase = "dispatch" }

NumberLiterals ==
    { [chars |-> LitHundred, value |-> 100], [chars |-> LitHundredFifty, value |-> 150] }

\* C14: an expression is split on the longest operator it contains: for
\* 'key >= n' (resp. 'key <= n') with a number n and a numeric context
\* value v the evaluator answers true exactly when v >= n (resp. v <= n).
C14_AtLeastAndAtMost ==
    \A r \in active :
        \A k \in ConditionCalls(r) :
            LET context == stack[r][k].context
            IN context.apiResult # Unset =>
                  \A lit \in NumberLiterals :
                      /\ graph.cond = CondOf(KeyApiResult, OpGe, lit.chars) =>
                            (evaluateSimpleCondition(graph.cond, context)
                                <=> context.apiResult >= lit.value)
                      /\ graph.cond = CondOf(KeyApiResult, OpLe, lit.chars) =>
                            (evaluateSimpleCondition(graph.cond, context)
                                <=> context.apiResult <= lit.value)

\* C15: when the left operand is missing from the context the evaluator
\* answers false, for each of the six operators and each literal (number,
\* boolean, string) on the right.
C15_MissingOperandIsFalse ==
    \A r \in active :
        \A k \in ConditionCalls(r) :
            \A key \in EvalKeys, op \in EvalOperators, lit \in EvalLiterals :
                (/\ graph.cond = CondOf(key, op, lit)
                 /\ getContextValue(key, stack[r][k].context) = Undefined)
                    => ~evaluateSimpleCondition(graph.cond, stack[r][k].context)

-----------------------------------------------------------------------------
(* C16: AI nodes                                                           *)

\* C16: an AI node always yields its input context with an AI response
\* block merged in; without a generation capability, or when the generation
\* call fails, the block is the simulated one. The handler does not throw
\* and the run goes on past the node, to 'completed' when nothing else fails.
C16_AiNodeFallsBackToSimulation ==
    \A r \in active :
        /\ \A k \in 1..Len(stack[r]) :
              LET f == stack[r][k]
              IN (/\ FindNode(f.node) # 0
                  /\ KindOf(NodeType(f.node)) = "ai"
                  /\ f.phase \in {"store", "next"}) =>
                     /\ f.result.aiResponse \in {"Gemini", "simulation"}
                     /\ f.result = [f.context EXCEPT !.aiResponse = f.result.aiResponse]
                     /\ ("nokey" \in faults \/ "ai" \in faults) =>
                            f.result.aiResponse = "simulation"
                     /\ pc[r] = "walk" /\ err[r] = ""
        /\ (FindTriggerNode # 0 /\ graph.nodata = 0 /\ pc[r] = "done") =>
              /\ Record(r).status = "completed"
              /\ Len(Record(r).results) = WalkVisits

\* With a generation call that fails, a run completed after an AI node
\* handed the simulated block to a successor.
C16_Witness ==
    /\ "ai" \in faults
    /\ pc[1] = "done" /\ Record(1).status = "completed"
    /\ \E i, j \in 1..Len(Record(1).results) :
          /\ KindOf(Record(1).results[i].nodeType) = "ai"
          /\ Record(1).results[i].result.aiResponse = "simulation"
          /\ Record(1).results[j].parent = Record(1).results[i].visit
          /\ Record(1).results[j].result.aiResponse = "simulation"

-----------------------------------------------------------------------------
(* C17: an edge to a node that does not exist                              *)

Dangling(e) == FindNode(e.target) = 0

\* A walk that nothing else stops comes to an edge whose target is missing.
WalkMeetsDanglingEdge ==
    /\ FindTriggerNode # 0
    /\ ExpectedVisits = WalkOrder
    /\ \E i \in 1..Len(WalkOrder) :
          \E e \in 1..Len(NextEdges(WalkOrder[i])) : Dangling(NextEdges(WalkOrder[i])[e])

\* C17: when the walker follows an edge whose target is not a node of the
\* graph, the run is aborted there: the walk does not go on after the call
\* for that edge, the Execution is stored 'failed' with a message and the
\* error reaches the caller.
C17_DanglingEdgeAborts ==
    \A r \in active :
        /\ \A k \in 1..Len(stack[r]) :
              LET f == stack[r][k]
              IN f.phase = "next" =>
                    \A e \in 1..(f.idx - 1) :
                        Dangling(NextEdges(f.node)[e]) =>
                            (k < Len(stack[r]) /\ e = f.idx - 1)
        /\ (pc[r] = "done" /\ WalkMeetsDanglingEdge) =>
              /\ outcome[r] = "thrown"
              /\ Record(r).status = "failed"
              /\ Record(r).error # ""

-----------------------------------------------------------------------------
(* C18: an HTTP request that is never answered                             *)

\* Run r awaits the handler of an API node.
ApiCallPending(r) ==
    /\ pc[r] = "walk"
    /\ Top(r).phase = "dispatch"
    /\ KindOf(NodeType(Top(r).node)) = "api"

\* C18: when the request of an API node never receives a response, its
\* timeout ends the call and the run still reaches a terminal status.
C18_StalledCallEnds ==
    \A r \in Runs :
        []((ApiCallPending(r) /\ "stall" \in faults /\ ~CycleReachable) => <>Ended(r))

-----------------------------------------------------------------------------
(* C19: what a handler does to the keys of its input context               *)

ContextKeys ==
    {"triggeredAt", "triggerType", "triggerData", "apiResult", "conditionResult",
     "aiResponse"}

\* The key is present in the context.
HasKey(context, key) ==
    IF key \in {"triggeredAt", "triggerData", "apiResult"}
    THEN context[key] # Unset
    ELSE context[key] # ""

\* C19: for every node visit, each key present in the node's input context
\* is present with the same value in the context handed to the successors.
C19_ContextIsAppendOnly ==
    \A r \in active :
        \A k \in 1..Len(stack[r]) :
            LET f == stack[r][k]
            IN f.phase \in {"store", "next"} =>
                  \A key \in ContextKeys :
                      HasKey(f.context, key) => f.result[key] = f.context[key]

-----------------------------------------------------------------------------
(* C20: one successor at a time, depth-first                               *)

\* The edges of the graph that leave node i, in edge-list order.
OutEdges(i) == SelectSeq(graph.edges, LAMBDA e : e.source = i)

\* The node visits in the subtrees of the first m outgoing edges of node i.
VisitsBelow(i, m) == PathCountEdges(SubSeq(OutEdges(i), 1, m), graph.n + 1)

\* C20: the outgoing edges of a node are followed one at a time in
\* edge-list order and depth-first. Every executeNode call but the
\* innermost has run its handler, appended its NodeResult and awaits the
\* call for the edge before its index; when the call for an edge starts,
\* the visits in the subtrees of the earlier edges have all been made and
\* recorded; the visits follow the depth-first order of the graph; and
\* only the innermost call can have its handler in progress.
C20_DepthFirstInEdgeOrder ==
    \A r \in active :
        /\ \A k \in 1..Len(stack[r]) :
              LET f == stack[r][k]
              IN /\ f.visit > 0 =>
                       (f.visit <= Len(WalkOrder) /\ f.node = WalkOrder[f.visit])
                 /\ k < Len(stack[r]) =>
                       /\ f.phase = "next"
                       /\ f.idx - 1 \in 1..Len(OutEdges(f.node))
                       /\ stack[r][k + 1].node = OutEdges(f.node)[f.idx - 1].target
                       /\ stack[r][k + 1].parent = f.visit
                       /\ ~CycleReachable =>
                             visits[r] >= f.visit + VisitsBelow(f.node, f.idx - 2)
                 /\ (k = Len(stack[r]) /\ k > 1 /\ f.phase = "enter" /\ ~CycleReachable) =>
                       /\ visits[r] = stack[r][k - 1].visit
                                        + VisitsBelow(stack[r][k - 1].node,
                                                      stack[r][k - 1].idx - 2)
                       /\ Len(Record(r).results) = visits[r]
        /\ Cardinality({ k \in 1..Len(stack[r]) : stack[r][k].phase \in {"dispatch", "store"} })
              <= 1

\* The call for the second outgoing edge of the trigger starts after the
\* subtree of the first one made two visits.
C20_Witness ==
    /\ Len(stack[1]) = 2
    /\ stack[1][1].idx = 3
    /\ stack[1][2].phase = "enter"
    /\ FindNode(stack[1][2].node) # 0
    /\ visits[1] = 3 /\ Len(Record(1).results) = 3

-----------------------------------------------------------------------------
(* C21: a cycle reachable from the trigger                                 *)

\* The run has not ended: nothing was handed back to the caller and the
\* record, once created, is 'running' in memory and in the store.
StillRunning(r) ==
    /\ outcome[r] = "pending"
    /\ doc[r].status \in {"", "running"}
    /\ Record(r).status \in {"", "running"}

\* Every node on a path from the trigger has a data object.
ReachedNodesHaveData ==
    FindTriggerNode # 0 /\ graph.nodata \notin ReachableFrom(FindTriggerNode)

\* The walk is as deep as the model follows it, each nested call having
\* logged and recorded its visit, and more calls are due.
GrownToDepth(r) ==
    /\ DepthCapped(r)
    /\ Len(stack[r]) = MaxDepth
    /\ Len(Record(r).results) >= MaxDepth
    /\ Len(Record(r).logs) >= MaxDepth + 2

\* C21 as stated: on a graph with a cycle reachable from the trigger the
\* run never reaches a terminal status; the Execution stays 'running'.
C21_CycleNeverEnds ==
    \A r \in active : CycleReachable => StillRunning(r)

\* C21, amended: on a graph with a cycle reachable from the trigger, every
\* node on a path from the trigger having a data object, the run never
\* reaches a terminal status, the Execution stays 'running', and the walk
\* goes ever deeper, its logs and results growing with it.
C21_CycleNeverEndsWithData ==
    /\ [](\A r \in active : (CycleReachable /\ ReachedNodesHaveData) => StillRunning(r))
    /\ []((CycleReachable /\ ReachedNodesHaveData) => <>(\A r \in active : GrownToDepth(r)))

\* The walk has gone around a cycle until one node was recorded three times.
C21_Witness ==
    /\ CycleReachable /\ ReachedNodesHaveData
    /\ GrownToDepth(1) /\ StillRunning(1)
    /\ \E i, j, k \in 1..Len(Record(1).results) :
          /\ i < j /\ j < k
          /\ Record(1).results[i].nodeId = Record(1).results[j].nodeId
          /\ Record(1).results[j].nodeId = Record(1).results[k].nodeId

-----------------------------------------------------------------------------
(* C22: appends and the terminal status                                    *)

FinalMessages == {"Agent execution completed successfully", "Agent execution failed"}

\* C22: every log entry and NodeResult of a run is appended while the
\* status of its Execution is 'running', in memory and in the store, the
\* final 'Agent execution completed successfully' / 'Agent execution
\* failed' entry included; once the status is 'completed' or 'failed' the
\* logs and results stay as they are, the final entry being the last one
\* and every entry older than endTime.
C22_AppendsOnlyWhileRunning ==
    /\ [][\A r \in Runs :
            (\/ Record(r)'.logs # Record(r).logs
             \/ Record(r)'.results # Record(r).results) =>
                /\ doc[r].status = "running" /\ doc'[r].status = "running"
                /\ Record(r).status = "running" /\ Record(r)'.status = "running"]_vars
    /\ [](\A r \in active :
            (doc[r].status \in TerminalStatus \/ Record(r).status \in TerminalStatus) =>
                /\ Record(r).logs # << >>
                /\ Record(r).logs[Len(Record(r).logs)].message \in FinalMessages
                /\ \A l \in 1..Len(Record(r).logs) :
                      Record(r).logs[l].timestamp < doc[r].endTime)

\* A run that recorded two visits and then failed has been stored 'failed',
\* 'Agent execution failed' being its last log entry.
C22_Witness ==
    /\ pc[1] = "done" /\ Record(1).status = "failed"
    /\ Len(Record(1).results) = 2
    /\ Record(1).logs[Len(Record(1).logs)].message = "Agent execution failed"
    /\ Record(1).logs[Len(Record(1).logs)].timestamp < Record(1).endTime

-----------------------------------------------------------------------------
(* C23: calls that interleave                                              *)

\* What run r holds for itself.
Own(r) == <<pc[r], execId[r], doc[r], stack[r], err[r], outcome[r], thrown[r], visits[r]>>

\* C23: calls of executeAgentWorkflow that interleave have each their own
\* Execution record: the ids differ, a step of one call changes (creates,
\* appends to, sets the status of) no record but that call's own, and each
\* record holds the results and the status of its own call.
C23_RunsWriteOwnRecordOnly ==
    /\ [](\A r, q \in active :
            /\ (r # q /\ execId[r] # 0) => execId[r] # execId[q]
            /\ Len(Record(r).results) <= visits[r]
            /\ pc[r] = "done" =>
                  /\ Len(Record(r).results) = visits[r]
                  /\ Record(r).status = doc[r].status
                  /\ Record(r).endTime = doc[r].endTime)
    /\ [][\A id \in Runs :
            store'[id] # store[id] =>
                \E r \in active :
                    /\ execId[r] = id
                    /\ Own(r)' # Own(r)
                    /\ \A q \in active \ {r} : Own(q)' = Own(q)]_vars

\* Two calls have interleaved and completed: each record has its own
\* result and log entries younger and older than entries of the other.
C23_Witness ==
    /\ pc[1] = "done" /\ pc[2] = "done"
    /\ Record(1).status = "completed" /\ Record(2).status = "completed"
    /\ execId[1] # execId[2]
    /\ Len(Record(1).results) = 1 /\ Len(Record(2).results) = 1
    /\ Record(1).logs[1].timestamp < Record(2).logs[1].timestamp
    /\ Record(2).logs[2].timestamp < Record(1).logs[2].timestamp
    /\ Record(1).endTime < Record(2).endTime

====
